---- MODULE Spec2Model ----
(***************************************************************************)
(* A model of the ingestion core of sl-circulars-monitor.                  *)
(*                                                                         *)
(* The repository is a set of scripts, each run as a process of its own;   *)
(* the variable script says which one a behaviour runs:                    *)
(*                                                                         *)
(*   ocr_vision        the quota-gated extraction ladder and its monthly   *)
(*                     budget ledger (vision_usage.json)                   *)
(*   run_pipeline      the default ingestion run                           *)
(*   reprocess_sinhala the Sinhala re-summariser                           *)
(*                                                                         *)
(* Texts are modelled by what the code looks at: a page's native text by   *)
(* its stripped length and its number of Sinhala characters, an error by   *)
(* the substrings str(ex) contains, a month key 'YYYY-MM' by a month       *)
(* index.  The last_updated timestamp of the ledger is never read by the   *)
(* code and is left out.                                                   *)
(***************************************************************************)
EXTENDS Integers, Sequences, FiniteSets, TLC

VARIABLES
    script,                \* the script this process runs
    now_month,             \* datetime.now().strftime('%Y-%m'), as a month index
    USAGE_FILE,            \* content of vision_usage.json on disk
    usage,                 \* the usage dict of the running ocr_vision process
    GOOGLE_VISION_API_KEY, \* TRUE iff the environment variable is non-empty
    pc,                    \* position of the ocr_vision process
    ocr_stats,             \* extract_text's stats {'native','vision','tesseract'}, summed over the run
    calls,                 \* pages handed to the ladder so far (bounded)
    last,                  \* outcome of the last page the ladder finished
    page,                  \* the page the ladder was last handed
    loaded,                \* what the last load_usage() returned, and when
    site,                  \* the listing the website serves, page by page
    db,                    \* rows of the circulars table
    disk,                  \* downloads/<year>/<language>/<number>.pdf: none, full, partial
    known_pairs,           \* main's known_pairs
    new_circulars,         \* main's new_circulars
    idx,                   \* position of main's loop over new_circulars
    lang_i,                \* position of main's loop over LANGUAGES
    pdf_paths,             \* main's pdf_paths, as the set of its keys
    ppc,                   \* position of the run_pipeline process
    stats,                 \* run_pipeline's stats
    px,                    \* the last extract_text(pdf_path, lang_code) and its result
    attempt,               \* "for attempt in range(3)" of the script that runs
    sum_log,               \* the completion call in progress or last finished
    rows,                  \* reprocess_sinhala: main's rows
    ridx,                  \* reprocess_sinhala: position of main's loop over rows
    rpc,                   \* position of the reprocess_sinhala process
    tally,                 \* reprocess_sinhala: main's fixed, skipped, failed
    net,                   \* the requests the process has sent to the website
    exit_code,             \* exit status of the process, -1 while it runs
    dpc,                   \* position of the new_detector process
    website,               \* new_detector: main's website_circulars
    changes,               \* new_detector: main's changes
    reply,                 \* a reply text handed to parse_response on its own
    parsed,                \* what parse_response returned for it
    bulletins,             \* two bulletins handed to the path builders on their own
    paths                  \* the cache paths built for them

ledgerVars == <<now_month, USAGE_FILE, usage, GOOGLE_VISION_API_KEY, pc,
                ocr_stats, calls, last, page, loaded>>

pipeVars == <<site, db, disk, known_pairs, new_circulars, idx, lang_i, pdf_paths,
              ppc, stats, px, attempt, sum_log, net, exit_code>>

reVars == <<rows, ridx, rpc, tally>>

detVars == <<dpc, website, changes>>

parseVars == <<reply, parsed>>

pathVars == <<bulletins, paths>>

vars == <<script, ledgerVars, pipeVars, reVars, detVars, parseVars, pathVars>>

----------------------------------------------------------------------------
(* Bounds of the model *)

MaxPages   == 4      \* pages handed to the ladder in one behaviour
MaxMonth   == 1      \* month boundaries crossed in one behaviour
StartSlack == 1      \* initial ledgers hold EFFECTIVE_CAP - StartSlack .. EFFECTIVE_CAP
MaxChars   == 2      \* characters of a bulletin number handed to safe_filename
MaxLines   == 3      \* lines of a reply handed to parse_response on its own

(* Program constants, src/ocr_vision.py *)

MONTHLY_CAP       == 1000
SAFETY_BUFFER     == 50
EFFECTIVE_CAP     == MONTHLY_CAP - SAFETY_BUFFER
NATIVE_MIN_CHARS  == 100      \* len(native) > 100
SI_RATIO_PCT      == 5        \* MIN_SINHALA_RATIO = 0.05, in percent

----------------------------------------------------------------------------
(* Pages.  A page is what extract_text reads of it: len(native) after      *)
(* strip() and the number of Sinhala characters among them.                *)

PageLens == {0, 100, 101, 120}

Pages == { p \in [len : PageLens, si : {0, 5, 6}] : p.si <= p.len }

----------------------------------------------------------------------------
(* The ledger file and the in-memory usage dict *)

NoFile      == [state |-> "missing", month |-> 0, pages_used |-> 0]
CorruptFile == [state |-> "corrupt", month |-> 0, pages_used |-> 0]
FileOf(u)   == [state |-> "ok", month |-> u.month, pages_used |-> u.pages_used]

NoUsage     == [month |-> 0, pages_used |-> 0]
NoLoad      == [valid |-> FALSE, at |-> 0, month |-> 0, pages_used |-> 0]
NoPage      == [method |-> "none", reason |-> "none"]
ZeroStats   == [native |-> 0, vision |-> 0, tesseract |-> 0]

\* load_usage(): the stored entry when the file exists, parses and carries the
\* current month; a fresh zero entry otherwise (new month, corrupt or no file).
load_usage(file, current_month) ==
    IF file.state = "ok" /\ file.month = current_month
    THEN [month |-> file.month, pages_used |-> file.pages_used]
    ELSE [month |-> current_month, pages_used |-> 0]

\* remaining = EFFECTIVE_CAP - usage['pages_used']
remaining(u) == EFFECTIVE_CAP - u.pages_used

\* cap check that lets one more call through
cap_reached_off_by_one(u) == remaining(u) < 0

\* the cap check of ocr_page: remaining <= 0 -> Tesseract
cap_reached(u) == remaining(u) <= 0

\* a counter bumped twice per call
increment_usage_twice(u) == [u EXCEPT !.pages_used = @ + 2]

\* a counter never bumped
increment_usage_forgotten(u) == u

\* increment_usage(): usage['pages_used'] += 1 (save_usage follows)
increment_usage(u) == [u EXCEPT !.pages_used = @ + 1]

\* extract_text of ocr_vision.py: the page's native text is good enough
\* ratio = si_chars / len(native) >= MIN_SINHALA_RATIO, in integers
native_ok(p) ==
    /\ p.len > NATIVE_MIN_CHARS
    /\ p.si * 100 >= SI_RATIO_PCT * p.len

Tally(s, method) == [s EXCEPT ![method] = @ + 1]

----------------------------------------------------------------------------
StartValues == {0} \cup { n \in 0..EFFECTIVE_CAP : n >= EFFECTIVE_CAP - StartSlack }

InitLedger ==
    /\ now_month = 0
    /\ USAGE_FILE \in {NoFile} \cup
           { [state |-> "ok", month |-> 0, pages_used |-> n] : n \in StartValues }
    /\ usage = NoUsage
    /\ GOOGLE_VISION_API_KEY \in BOOLEAN
    /\ pc = "down"
    /\ ocr_stats = ZeroStats
    /\ calls = 0
    /\ last = NoPage
    /\ page = [len |-> 0, si |-> 0]
    /\ loaded = NoLoad

\* process start: usage = load_usage()
Start(key) ==
    /\ script = "ocr_vision"
    /\ pc = "down"
    /\ UNCHANGED <<script, pipeVars, reVars, detVars, parseVars, pathVars>>
    /\ usage' = load_usage(USAGE_FILE, now_month)
    /\ loaded' = [valid |-> TRUE, at |-> now_month,
                  month |-> usage'.month, pages_used |-> usage'.pages_used]
    /\ GOOGLE_VISION_API_KEY' = key
    /\ pc' = "idle"
    /\ ocr_stats' = ZeroStats
    /\ last' = NoPage
    /\ UNCHANGED <<now_month, USAGE_FILE, calls, page>>

\* "except urllib.error.HTTPError as e: err = e.read().decode('utf-8')": the
\* body of the error response cannot be read or is not UTF-8.  The exception
\* is raised inside a handler, so "except Exception" does not see it; it
\* leaves ocr_page and extract_text, whose stats go with it, and main counts
\* the document as failed and goes on with the next one.
Raised(why) ==
    /\ ocr_stats' = ZeroStats
    /\ last' = [method |-> "none", reason |-> why]
    /\ pc' = "idle"

\* tesseract_ocr_page(page) and return (text, 'tesseract'); extract_text then
\* tallies the page under 'tesseract'.  tesseract_ocr_page catches every
\* exception and returns ''.
Fallback(why) ==
    /\ ocr_stats' = Tally(ocr_stats, "tesseract")
    /\ last' = [method |-> "tesseract", reason |-> why]
    /\ pc' = "idle"

\* one iteration of extract_text's page loop, up to the point where ocr_page
\* has either returned or issued its request
ExtractPage(p) ==
    /\ script = "ocr_vision"
    /\ pc = "idle"
    /\ UNCHANGED <<script, pipeVars, reVars, detVars, parseVars, pathVars>>
    /\ calls < MaxPages
    /\ calls' = calls + 1
    /\ page' = p
    /\ IF native_ok(p)
       THEN /\ ocr_stats' = Tally(ocr_stats, "native")
            /\ last' = [method |-> "native", reason |-> "native"]
            /\ pc' = "idle"
       ELSE IF cap_reached(usage)
       THEN Fallback("cap")
       ELSE IF ~GOOGLE_VISION_API_KEY
       THEN Fallback("nokey")
       ELSE /\ pc' = "urlopen"
            /\ UNCHANGED <<ocr_stats, last>>
    /\ UNCHANGED <<now_month, USAGE_FILE, usage, GOOGLE_VISION_API_KEY, loaded>>

\* urlopen(...) returns or raises.  On a result: increment_usage(usage), whose
\* first statement bumps the in-memory counter; save_usage follows.
VisionReturn(outcome) ==
    /\ script = "ocr_vision"
    /\ pc = "urlopen"
    /\ UNCHANGED <<script, pipeVars, reVars, detVars, parseVars, pathVars>>
    /\ IF outcome = "ok"
       THEN /\ usage' = increment_usage(usage)
            /\ pc' = "save_open"
            /\ UNCHANGED <<ocr_stats, last>>
       ELSE IF outcome = "http_error_unreadable"
       THEN /\ Raised("raised")
            /\ UNCHANGED usage
       ELSE /\ Fallback(outcome)
            /\ UNCHANGED usage
    /\ UNCHANGED <<now_month, USAGE_FILE, GOOGLE_VISION_API_KEY, calls, page, loaded>>

\* save_usage: USAGE_FILE.write_text(...) opens the file for writing, which
\* truncates it.  An OSError escapes increment_usage into ocr_page's
\* "except Exception", which falls back to Tesseract.
SaveOpen(ok) ==
    /\ script = "ocr_vision"
    /\ pc = "save_open"
    /\ UNCHANGED <<script, pipeVars, reVars, detVars, parseVars, pathVars>>
    /\ IF ok
       THEN /\ USAGE_FILE' = CorruptFile
            /\ pc' = "save_write"
            /\ UNCHANGED <<ocr_stats, last>>
       ELSE /\ Fallback("save_error")
            /\ UNCHANGED USAGE_FILE
    /\ UNCHANGED <<now_month, usage, GOOGLE_VISION_API_KEY, calls, page, loaded>>

\* save_usage: the JSON text is written and the file closed; ocr_page returns
\* (text, 'vision') and extract_text tallies the page under 'vision'.
SaveWrite(ok) ==
    /\ script = "ocr_vision"
    /\ pc = "save_write"
    /\ UNCHANGED <<script, pipeVars, reVars, detVars, parseVars, pathVars>>
    /\ IF ok
       THEN /\ USAGE_FILE' = FileOf(usage)
            /\ ocr_stats' = Tally(ocr_stats, "vision")
            /\ last' = [method |-> "vision", reason |-> "ok"]
            /\ pc' = "idle"
       ELSE /\ Fallback("save_error")
            /\ UNCHANGED USAGE_FILE
    /\ UNCHANGED <<now_month, usage, GOOGLE_VISION_API_KEY, calls, page, loaded>>

\* the process ends, or is interrupted, wherever it is
Stop ==
    /\ script = "ocr_vision"
    /\ pc # "down"
    /\ UNCHANGED <<script, pipeVars, reVars, detVars, parseVars, pathVars>>
    /\ pc' = "down"
    /\ usage' = NoUsage
    /\ last' = [method |-> "none", reason |-> "stopped"]
    /\ UNCHANGED <<now_month, USAGE_FILE, GOOGLE_VISION_API_KEY, ocr_stats, calls,
                   page, loaded>>

\* the calendar month changes
MonthTick ==
    /\ script = "ocr_vision"
    /\ now_month < MaxMonth
    /\ UNCHANGED <<script, pipeVars, reVars, detVars, parseVars, pathVars>>
    /\ now_month' = now_month + 1
    /\ UNCHANGED <<USAGE_FILE, usage, GOOGLE_VISION_API_KEY, pc, ocr_stats, calls,
                   last, page, loaded>>

NextLedger ==
    \/ \E key \in BOOLEAN : Start(key)
    \/ \E p \in Pages : ExtractPage(p)
    \/ \E outcome \in {"ok", "http_error", "http_error_unreadable", "error"} :
          VisionReturn(outcome)
    \/ \E ok \in BOOLEAN : SaveOpen(ok)
    \/ \E ok \in BOOLEAN : SaveWrite(ok)
    \/ Stop
    \/ MonthTick

----------------------------------------------------------------------------
(* run_pipeline.py *)


(* Program constants, src/run_pipeline.py *)

MIN_CHARS_PAGE == 50
MAX_ATTEMPTS   == 3       \* for attempt in range(3)
BACKOFF_UNIT   == 20      \* wait = 20 * (attempt + 1)

LANGUAGES    == <<"E", "S">>
Langs        == {"E", "S"}
TARGET_YEARS == {"2025", "2026"}

\* A page of a PDF as run_pipeline's extract_text reads it: len(native) after
\* strip(), and what Tesseract would return for it ('' also when it raises).
\* si is the number of Sinhala characters of the native text.
Scan   == [len |-> 0, si |-> 0, ocr |-> ""]
Faint  == [len |-> MIN_CHARS_PAGE - 1, si |-> 0, ocr |-> "text"]
Native == [len |-> MIN_CHARS_PAGE, si |-> 10, ocr |-> ""]

\* A PDF: fitz.open raises on it, or it has pages.
Doc(ps) == [readable |-> TRUE, pages |-> ps]
Broken  == [readable |-> FALSE, pages |-> <<>>]

\* A row of the listing table as the site serves it: the number, the year of
\* its date cell (NO_DATE when DATE_PATTERN does not match the cell) and
\* whether the title cell holds a link.
NO_DATE == "none"

Row(n, y, link) == [number |-> n, year |-> y, detail_url |-> link]

\* parse_row(row) returns a dict, not None
parse_row_ok(tr) == tr.year # NO_DATE

\* rows = [parse_row(tr) for tr in ...]; rows = [r for r in rows if r]
parsed_rows(trs) == SelectSeq(trs, parse_row_ok)

\* the listing page at offset 10 * (k - 1); past its last page the site
\* serves a page without rows
page_at(pages, k) == IF k > Len(pages) THEN <<>> ELSE pages[k]

Numbers == {"11/2025", "10/2025", "09/2024", "08/2024"}
Pairs   == Numbers \X Langs

\* What the website serves: the listing page by page, the title the listing
\* shows for each bulletin (texts "X" and "Y", neither part of the other), the
\* language segments
\* of the PDF links of each detail page, and the PDF behind each link.  On
\* SiteA a bulletin published during the walk has pushed the last row of the
\* first page onto the second, so the walk meets 11/2025 twice.
SiteA ==
    [listing |-> << <<Row("10/2025", "2025", TRUE), Row("11/2025", "2025", TRUE)>>,
                    <<Row("11/2025", "2025", TRUE)>> >>,
     titles  |-> [n \in Numbers |-> "X"],
     links   |-> [n \in Numbers |-> IF n = "11/2025" THEN {"E", "S"} ELSE {"E"}],
     docs    |-> [pr \in Pairs |->
                    CASE pr = <<"11/2025", "E">> -> Doc(<<Native, Faint>>)
                      [] pr = <<"11/2025", "S">> -> Doc(<<Scan, Scan>>)
                      [] OTHER                   -> Doc(<<>>)]]

SiteB ==
    [listing |-> << <<Row("11/2025", "2025", FALSE)>>,
                    <<Row("10/2025", "2025", TRUE), Row("09/2024", "2024", TRUE)>>,
                    <<Row("08/2024", "2024", TRUE)>> >>,
     titles  |-> [n \in Numbers |-> IF n = "10/2025" THEN "Y" ELSE "X"],
     links   |-> [n \in Numbers |-> {"E", "S", "T"}],
     docs    |-> [pr \in Pairs |->
                    CASE pr = <<"10/2025", "E">> -> Broken
                      [] OTHER                   -> Doc(<<Faint, Native>>)]]

\* the second page of SiteC shows a single row, whose date cell is malformed
SiteC ==
    [listing |-> << <<Row("11/2025", "2025", TRUE)>>,
                    <<Row("08/2024", NO_DATE, TRUE)>>,
                    <<Row("10/2025", "2025", TRUE), Row("09/2024", "2024", TRUE)>> >>,
     titles  |-> [n \in Numbers |-> "X"],
     links   |-> [n \in Numbers |-> {"E"}],
     docs    |-> [pr \in Pairs |-> Doc(<<Native>>)]]

Sites == {SiteA, SiteB, SiteC}

\* the cloud engine in place of Tesseract
ocr_page_cloud(pg, lang_code) ==
    [engine |-> "vision", hint |-> "si", text |-> pg.ocr]

\* _ocr_page(page, lang_code): Tesseract with the language of lang_code
_ocr_page(pg, lang_code) ==
    [engine |-> "tesseract",
     hint   |-> IF lang_code = "S" THEN "sin" ELSE "eng",
     text   |-> pg.ocr]

\* native text accepted only above the threshold
page_part_strict(pg, lang_code) ==
    IF pg.len > MIN_CHARS_PAGE
    THEN [tier |-> "native", engine |-> "none", hint |-> "none", body |-> "text"]
    ELSE [tier |-> "OCR", engine |-> "tesseract",
          hint |-> IF lang_code = "S" THEN "sin" ELSE "eng", body |-> pg.ocr]

\* the body of extract_text's page loop: the part appended for one page
page_part(pg, lang_code) ==
    IF pg.len >= MIN_CHARS_PAGE
    THEN [tier |-> "native", engine |-> "none", hint |-> "none", body |-> "text"]
    ELSE LET r == _ocr_page(pg, lang_code)
         IN  [tier |-> "OCR", engine |-> r.engine, hint |-> r.hint, body |-> r.text]

\* extract_text(pdf_path, lang_code) -> (full_text, ocr_used); full_text is
\* kept as its parts, each '\n--- Page i ---\n' + text
extract_text(doc, lang_code) ==
    LET parts == [i \in 1..Len(doc.pages) |-> page_part(doc.pages[i], lang_code)]
    IN  [parts    |-> parts,
         ocr_used |-> \E i \in 1..Len(parts) :
                          parts[i].tier = "OCR" /\ parts[i].body # ""]

\* not text.strip(): every part carries its '--- Page i ---' header, so the
\* text is blank only when the document has no page
text_blank(parts) == Len(parts) = 0

NoExtract == [valid |-> FALSE, doc |-> [readable |-> TRUE, pages |-> <<>>],
              lang |-> "E", parts |-> <<>>, ocr_used |-> FALSE]

----------------------------------------------------------------------------
(* The completion reply and its parser *)

Labels == {"TOPIC", "SUMMARY", "ISSUED_BY", "ISSUED_DATE", "APPLIES_TO", "DEADLINE"}

\* A line of the reply: whether it holds a ':', the text before it and the
\* text after it.
Line(k, v) == [colon |-> TRUE, key |-> k, val |-> v]
Noise      == [colon |-> FALSE, key |-> "", val |-> ""]

Replies ==
    { << Line("topic", "X"), Line("DEADLINE", "NULL") >>,
      << Noise, Line("NOTE", "X") >> }

\* The lines a reply is made of, and the replies of at most MaxLines lines.
ReplyLines ==
    { Line(k, v) : k \in {"TOPIC", "topic", "DEADLINE", "NOTE"},
                   v \in {"X", "Y", "null", "NULL"} } \cup {Noise}

ReplyTexts == UNION { [1..n -> ReplyLines] : n \in 0..MaxLines }

\* key.strip().upper() and val.lower() on the texts of the model
Upper(k) == IF k = "topic" THEN "TOPIC" ELSE k
Lower(v) == IF v = "NULL" THEN "null" ELSE v

\* A parsed reply: for each label its value, "None" for the literal null and
\* "ABSENT" for a key the dict does not hold.
EmptyResult == [l \in Labels |-> "ABSENT"]

RECURSIVE parse_lines_keep_null(_, _)
\* the word null stored as it is written
parse_lines_keep_null(raw, result) ==
    IF raw = <<>> THEN result
    ELSE LET ln  == Head(raw)
             key == Upper(ln.key)
         IN  parse_lines_keep_null(Tail(raw),
                 IF ln.colon /\ key \in Labels
                 THEN [result EXCEPT ![key] = ln.val]
                 ELSE result)

RECURSIVE parse_lines(_, _)
\* the loop of parse_response over raw.strip().splitlines()
parse_lines(raw, result) ==
    IF raw = <<>> THEN result
    ELSE LET ln  == Head(raw)
             key == Upper(ln.key)
             val == IF Lower(ln.val) = "null" THEN "None" ELSE ln.val
         IN  parse_lines(Tail(raw),
                 IF ln.colon /\ key \in Labels
                 THEN [result EXCEPT ![key] = val]
                 ELSE result)

\* parse_response(raw) of run_pipeline.py; result.setdefault('key_instructions', [])
\* makes the dict non-empty whatever the reply holds
parse_response(raw) ==
    [fields |-> parse_lines(raw, EmptyResult), key_instructions |-> TRUE]

\* "if summary:" -- a dict is true iff it holds a key
truthy(summary) ==
    summary.key_instructions \/ \E l \in Labels : summary.fields[l] # "ABSENT"

\* summary.get(label)
get(summary, l) == IF summary.fields[l] = "ABSENT" THEN "None" ELSE summary.fields[l]

\* 413 taken for an ordinary error
is_rate_limit_no_413(err) == err = "429"

\* every error retried
is_rate_limit_any(err) == TRUE

\* the error-class test of summarise_with_groq on str(ex); an error of the
\* model is named by the marker its message holds ("429" also stands for
\* messages holding 'rate_limit')
is_rate_limit(err) == err \in {"413", "429"}

Errors == {"413", "429", "other"}

Outcomes == { [kind |-> "reply", raw |-> r, err |-> "none"] : r \in Replies } \cup
            { [kind |-> "error", raw |-> <<>>, err |-> e] : e \in Errors }

----------------------------------------------------------------------------
(* The repository *)

\* get_known_pairs()
get_known_pairs(table) == { <<r.circular_number, r.language>> : r \in table }

\* A row of the circulars table.  fields holds issued_date, issued_by, topic,
\* summary, applies_to and deadline under their labels; key_instructions is
\* "[]" for json.dumps([]) and "old" for a list an earlier run stored;
\* processed_at is "run" for a time within this run and "before" for an
\* earlier one.  pdf_path and txt_path are functions of the number and the
\* language and are left out, as is the autoincrement id.
NewRow(number, lang_code, summary) ==
    [circular_number |-> number, language |-> lang_code,
     fields |-> [l \in Labels |-> get(summary, l)],
     key_instructions |-> "[]",
     processed_at |-> "run"]

\* a plain INSERT into a table without the UNIQUE constraint
save_to_db_insert(table, number, summary, lang_code) ==
    table \cup {NewRow(number, lang_code, summary)}

\* save_to_db: INSERT OR REPLACE under UNIQUE(circular_number, language)
save_to_db(table, number, summary, lang_code) ==
    { r \in table : ~(r.circular_number = number /\ r.language = lang_code) } \cup
    { NewRow(number, lang_code, summary) }

----------------------------------------------------------------------------
(* The change detector *)

\* a bulletin taken for known as soon as one of its languages is
needs_by_number(number, lang_code, known) ==
    \A l \in Langs : <<number, l>> \notin known

\* needs_en, needs_si: (row['number'], lang) not in known_pairs
needs(number, lang_code, known) == <<number, lang_code>> \notin known

RECURSIVE scrape_rows(_, _)
\* the loop over the trs of one listing page
scrape_rows(trs, known) ==
    IF trs = <<>> THEN <<>>
    ELSE LET row      == Head(trs)
             needs_en == needs(row.number, "E", known)
             needs_si == needs(row.number, "S", known)
         IN  IF row.year \notin TARGET_YEARS THEN scrape_rows(Tail(trs), known)
             ELSE IF needs_en \/ needs_si
             THEN <<[number |-> row.number, year |-> row.year,
                     detail_url |-> row.detail_url,
                     needs_en |-> needs_en, needs_si |-> needs_si]>>
                  \o scrape_rows(Tail(trs), known)
             ELSE scrape_rows(Tail(trs), known)

\* no row is ever taken for one of an old year
found_old_never(trs) == FALSE

\* found_old after the row loop of one listing page
found_old(trs) == \E i \in 1..Len(trs) : trs[i].year \notin TARGET_YEARS

RECURSIVE scrape_from(_, _, _, _)
\* the while loop of scrape_new_circulars from listing page k on (page k is
\* the one at offset 10 * (k - 1)): the rows appended to new_circulars and
\* the pages requested.  The fetch of page fail_at raises (0: no fetch
\* fails); past its last page the site serves a page without rows.
scrape_from(pages, k, fail_at, known) ==
    IF k = fail_at \/ parsed_rows(page_at(pages, k)) = <<>>
    THEN [found |-> <<>>, requested |-> <<k>>]
    ELSE LET trs  == parsed_rows(page_at(pages, k))
             rest == IF found_old(trs)
                     THEN [found |-> <<>>, requested |-> <<>>]
                     ELSE scrape_from(pages, k + 1, fail_at, known)
         IN  [found     |-> scrape_rows(trs, known) \o rest.found,
              requested |-> <<k>> \o rest.requested]

\* a walk that drops what it gathered when a fetch raises
scrape_new_circulars_all_or_nothing(pages, fail_at, known) ==
    IF scrape_from(pages, 1, fail_at, known).requested[
           Len(scrape_from(pages, 1, fail_at, known).requested)] = fail_at
    THEN <<>>
    ELSE scrape_from(pages, 1, fail_at, known).found

scrape_new_circulars(pages, fail_at, known) ==
    scrape_from(pages, 1, fail_at, known).found

\* the listing pages a walk requested, and the one whose fetch raised (0: none)
Requests(requested, fail_at) ==
    [pages   |-> requested,
     failed  |-> IF \E i \in 1..Len(requested) : requested[i] = fail_at
                 THEN fail_at ELSE 0,
     details |-> {},
     pdfs    |-> {}]

NoRequests == Requests(<<>>, 0)

----------------------------------------------------------------------------
(* main() of run_pipeline.py *)

\* exit status of a process: none yet; main returned; an exception left main
RUNNING  == 0 - 1
EXIT_OK  == 0
EXIT_ERR == 1

ZeroRunStats == [new_found |-> 0, downloaded |-> 0, summarised |-> 0,
                 failed |-> 0, ocr_used |-> 0]

NoCall == [number |-> "", lang |-> "", outcomes |-> <<>>, waits |-> <<>>,
           result |-> "none", raw |-> <<>>]

InitialRows ==
    { {},
      { [circular_number |-> "10/2025", language |-> "E",
         fields |-> [l \in Labels |-> IF l = "TOPIC" THEN "X" ELSE "None"],
         key_instructions |-> "old", processed_at |-> "before"] } }

InitPipeline ==
    /\ known_pairs = {}
    /\ new_circulars = <<>>
    /\ idx = 0
    /\ lang_i = 0
    /\ pdf_paths = {}
    /\ ppc = "start"
    /\ stats = ZeroRunStats
    /\ px = NoExtract
    /\ attempt = 0
    /\ sum_log = NoCall
    /\ net = NoRequests
    /\ exit_code = RUNNING

\* init_db(); known_pairs = get_known_pairs(); new_circulars = scrape_new_circulars(...);
\* "if not new_circulars: return"
PStart(fail_at) ==
    /\ script = "run_pipeline"
    /\ ppc = "start"
    /\ known_pairs' = get_known_pairs(db)
    /\ new_circulars' = scrape_new_circulars(site.listing, fail_at, known_pairs')
    /\ net' = Requests(scrape_from(site.listing, 1, fail_at, known_pairs').requested,
                       fail_at)
    /\ stats' = [stats EXCEPT !.new_found = Len(new_circulars')]
    /\ IF new_circulars' = <<>>
       THEN ppc' = "done" /\ idx' = 0 /\ exit_code' = EXIT_OK
       ELSE ppc' = "circular" /\ idx' = 1 /\ UNCHANGED exit_code
    /\ UNCHANGED <<site, db, disk, lang_i, pdf_paths, px, attempt, sum_log>>
    /\ UNCHANGED <<script, ledgerVars, reVars, detVars, parseVars, pathVars>>

\* the for loop over new_circulars moves on to its next item, or ends; after
\* it come the alerts, which catch their errors, and main returns
NextCircular ==
    /\ IF idx < Len(new_circulars)
       THEN idx' = idx + 1 /\ ppc' = "circular" /\ UNCHANGED exit_code
       ELSE idx' = idx /\ ppc' = "done" /\ exit_code' = EXIT_OK
    /\ lang_i' = 0

\* an exception leaves main: the interpreter prints it and exits with 1
Crash ==
    /\ ppc' = "crashed"
    /\ exit_code' = EXIT_ERR

\* the for loop over LANGUAGES moves on; after the last language the body of
\* the outer loop reaches processed.append(circular_data)
NextLanguage ==
    /\ idx' = idx
    /\ UNCHANGED exit_code
    /\ IF lang_i < Len(LANGUAGES)
       THEN lang_i' = lang_i + 1 /\ ppc' = "lang"
       ELSE lang_i' = lang_i /\ ppc' = "append"

\* find_pdfs(detail_url, LANGUAGES): {} when the detail page cannot be
\* fetched, else the tracked languages the page links a PDF for
find_pdfs(fetched, links) == IF fetched THEN links \cap Langs ELSE {}

\* download_pdf(url, path) for each language of pdfs whose path is not on
\* disk: "ok", "fail" (before the file is opened) or "partial" (while the
\* body is streamed to the opened file)
after_download(d, number, pdfs, dl) ==
    [pr \in Pairs |->
        IF pr[1] = number /\ pr[2] \in pdfs /\ d[pr] = "none"
        THEN (CASE dl[pr[2]] = "ok"      -> "full"
                [] dl[pr[2]] = "partial" -> "partial"
                [] OTHER                 -> "none")
        ELSE d[pr]]

\* the head of the loop body: detail link, find_pdfs, the download loop
PCircular(fetched, dl, mkdir_ok) ==
    /\ script = "run_pipeline"
    /\ ppc = "circular"
    /\ LET circular == new_circulars[idx]
           pdfs     == find_pdfs(fetched, site.links[circular.number])
           got      == { l \in pdfs : disk[<<circular.number, l>>] = "none"
                                      /\ dl[l] = "ok" }
           cached   == { l \in pdfs : disk[<<circular.number, l>>] # "none" }
       IN  IF ~circular.detail_url
           THEN /\ fetched /\ mkdir_ok /\ dl = [l \in Langs |-> "ok"]
                /\ NextCircular
                /\ UNCHANGED <<disk, pdf_paths, stats, net>>
           ELSE IF pdfs = {}
           THEN /\ mkdir_ok /\ dl = [l \in Langs |-> "ok"]
                /\ NextCircular
                /\ net' = [net EXCEPT !.details = @ \cup {circular.number}]
                /\ UNCHANGED <<disk, pdf_paths, stats>>
           ELSE IF ~mkdir_ok
           THEN \* build_pdf_path: folder.mkdir raises, outside any try
                /\ dl = [l \in Langs |-> "ok"]
                /\ Crash
                /\ net' = [net EXCEPT !.details = @ \cup {circular.number}]
                /\ UNCHANGED <<disk, pdf_paths, stats, idx, lang_i>>
           ELSE /\ \A l \in Langs \ pdfs : dl[l] = "ok"
                /\ disk' = after_download(disk, circular.number, pdfs, dl)
                /\ net' = [net EXCEPT
                             !.details = @ \cup {circular.number},
                             !.pdfs = @ \cup { <<circular.number, l>> : l \in
                                 { x \in pdfs : disk[<<circular.number, x>>] = "none" } }]
                /\ pdf_paths' = got \cup cached
                /\ stats' = [stats EXCEPT !.downloaded = @ + Cardinality(got)]
                /\ ppc' = "lang"
                /\ lang_i' = 1
                /\ idx' = idx
                /\ UNCHANGED exit_code
    /\ UNCHANGED <<site, db, known_pairs, new_circulars, px, attempt, sum_log>>
    /\ UNCHANGED <<script, ledgerVars, reVars, detVars, parseVars, pathVars>>

\* the body of the loop over LANGUAGES up to the call of summarise_with_groq;
\* a file a download left partial may or may not open
PLang(opens, write_ok) ==
    /\ script = "run_pipeline"
    /\ ppc = "lang"
    /\ LET circular  == new_circulars[idx]
           lang_code == LANGUAGES[lang_i]
           pair      == <<circular.number, lang_code>>
           doc       == IF opens THEN site.docs[pair] ELSE Broken
           res       == extract_text(doc, lang_code)
           used      == IF res.ocr_used THEN 1 ELSE 0
       IN  IF pair \in known_pairs \/ lang_code \notin pdf_paths \/ disk[pair] = "none"
           THEN /\ opens /\ write_ok
                /\ NextLanguage
                /\ UNCHANGED <<stats, px, attempt, sum_log>>
           ELSE IF ~doc.readable
           THEN \* extract_text raises: caught, counted
                /\ write_ok
                /\ opens \/ disk[pair] = "partial"
                /\ stats' = [stats EXCEPT !.failed = @ + 1]
                /\ NextLanguage
                /\ UNCHANGED <<px, attempt, sum_log>>
           ELSE /\ px' = [valid |-> TRUE, doc |-> doc, lang |-> lang_code,
                          parts |-> res.parts, ocr_used |-> res.ocr_used]
                /\ IF ~write_ok
                   THEN \* build_txt_path(...).write_text raises, outside any try
                        /\ stats' = [stats EXCEPT !.ocr_used = @ + used]
                        /\ Crash
                        /\ UNCHANGED <<idx, lang_i, attempt, sum_log>>
                   ELSE IF text_blank(res.parts)
                   THEN /\ stats' = [stats EXCEPT !.ocr_used = @ + used,
                                                  !.failed = @ + 1]
                        /\ NextLanguage
                        /\ UNCHANGED <<attempt, sum_log>>
                   ELSE /\ stats' = [stats EXCEPT !.ocr_used = @ + used]
                        /\ ppc' = "summarise"
                        /\ attempt' = 0
                        /\ sum_log' = [number |-> circular.number, lang |-> lang_code,
                                       outcomes |-> <<>>, waits |-> <<>>,
                                       result |-> "pending", raw |-> <<>>]
                        /\ UNCHANGED <<idx, lang_i, exit_code>>
    /\ UNCHANGED <<site, db, disk, known_pairs, new_circulars, pdf_paths, net>>
    /\ UNCHANGED <<script, ledgerVars, reVars, detVars, parseVars, pathVars>>

\* wait = 20 * (attempt + 1)
backoff(a) == BACKOFF_UNIT * (a + 1)

\* one pass of summarise_with_groq's loop, and what main does with the value
\* summarise_with_groq returns once it returns
PAttempt(o, db_ok) ==
    /\ script = "run_pipeline"
    /\ ppc = "summarise"
    /\ LET circular  == new_circulars[idx]
           lang_code == LANGUAGES[lang_i]
           summary   == parse_response(o.raw)
           tried     == Append(sum_log.outcomes, IF o.kind = "reply" THEN "reply" ELSE o.err)
       IN  IF o.kind = "reply"
           THEN /\ sum_log' = [sum_log EXCEPT !.outcomes = tried, !.result = "summary",
                                                 !.raw = o.raw]
                /\ IF ~truthy(summary)
                   THEN /\ db_ok
                        /\ stats' = [stats EXCEPT !.failed = @ + 1]
                        /\ NextLanguage
                        /\ UNCHANGED db
                   ELSE IF ~db_ok
                   THEN \* save_to_db: sqlite3 raises, outside any try
                        /\ Crash
                        /\ UNCHANGED <<db, stats, idx, lang_i>>
                   ELSE /\ db' = save_to_db(db, circular.number, summary, lang_code)
                        /\ stats' = [stats EXCEPT !.summarised = @ + 1]
                        /\ NextLanguage
                /\ UNCHANGED attempt
           ELSE IF is_rate_limit(o.err)
           THEN /\ db_ok
                /\ IF attempt + 1 < MAX_ATTEMPTS
                   THEN /\ sum_log' = [sum_log EXCEPT !.outcomes = tried,
                                         !.waits = Append(@, backoff(attempt))]
                        /\ attempt' = attempt + 1
                        /\ UNCHANGED <<db, stats, ppc, idx, lang_i, exit_code>>
                   ELSE \* the loop is exhausted: return None
                        /\ sum_log' = [sum_log EXCEPT !.outcomes = tried,
                                         !.waits = Append(@, backoff(attempt)),
                                         !.result = "none"]
                        /\ stats' = [stats EXCEPT !.failed = @ + 1]
                        /\ NextLanguage
                        /\ UNCHANGED <<db, attempt>>
           ELSE \* any other error: return None
                /\ db_ok
                /\ sum_log' = [sum_log EXCEPT !.outcomes = tried, !.result = "none"]
                /\ stats' = [stats EXCEPT !.failed = @ + 1]
                /\ NextLanguage
                /\ UNCHANGED <<db, attempt>>
    /\ UNCHANGED <<site, disk, known_pairs, new_circulars, pdf_paths, px, net>>
    /\ UNCHANGED <<script, ledgerVars, reVars, detVars, parseVars, pathVars>>

\* processed.append(circular_data): the loop body ends and its locals with it
PAppend ==
    /\ script = "run_pipeline"
    /\ ppc = "append"
    /\ NextCircular
    /\ pdf_paths' = {}
    /\ px' = NoExtract
    /\ attempt' = 0
    /\ sum_log' = NoCall
    /\ UNCHANGED <<site, db, disk, known_pairs, new_circulars, stats, net>>
    /\ UNCHANGED <<script, ledgerVars, reVars, detVars, parseVars, pathVars>>

NextPipeline ==
    \/ \E fail_at \in 0..2 : PStart(fail_at)
    \/ \E fetched \in BOOLEAN, dl \in [Langs -> {"ok", "fail", "partial"}],
          mkdir_ok \in BOOLEAN : PCircular(fetched, dl, mkdir_ok)
    \/ \E opens \in BOOLEAN, write_ok \in BOOLEAN : PLang(opens, write_ok)
    \/ \E o \in Outcomes, db_ok \in BOOLEAN : PAttempt(o, db_ok)
    \/ PAppend

----------------------------------------------------------------------------
(* reprocess_sinhala.py *)

SINHALA_MIN == 5      \* len(SINHALA_RE.findall(...)) <= 5, si_new > 5

\* Values of the model: "SI" is a text in Sinhala script (more than
\* SINHALA_MIN characters of it), every other value holds none.
sinhala_chars(v) == IF v = "SI" THEN SINHALA_MIN + 1 ELSE 0

RReplies == Replies \cup { << Line("TOPIC", "SI"), Line("SUMMARY", "SI") >> }

ROutcomes == { [kind |-> "reply", raw |-> r, err |-> "none"] : r \in RReplies } \cup
             { [kind |-> "error", raw |-> <<>>, err |-> e] : e \in Errors }

\* parse_response(raw) of reprocess_sinhala.py: no key_instructions default
re_parse_response(raw) ==
    [fields |-> parse_lines(raw, EmptyResult), key_instructions |-> FALSE]

\* the error-class test of reprocess_sinhala's main: '429' or 'rate_limit'
re_is_rate_limit(err) == err = "429"

RECURSIVE seq_of(_)
\* fetchall(): the rows of a set in some order
seq_of(S) == IF S = {} THEN <<>>
             ELSE LET x == CHOOSE y \in S : TRUE IN <<x>> \o seq_of(S \ {x})

\* get_english_sinhala_rows(): the Sinhala rows whose topic and summary hold
\* at most 5 Sinhala characters
get_english_sinhala_rows(table) ==
    seq_of({ r.circular_number : r \in
               { x \in table : /\ x.language = "S"
                               /\ sinhala_chars(x.fields["TOPIC"])
                                  + sinhala_chars(x.fields["SUMMARY"]) <= SINHALA_MIN } })

\* update_db(number, summary): UPDATE ... SET topic, summary, issued_by,
\* applies_to, deadline WHERE circular_number=? AND language='S'
update_db(table, number, summary) ==
    { IF r.circular_number = number /\ r.language = "S"
      THEN [r EXCEPT !.fields =
              [l \in Labels |-> IF l = "ISSUED_DATE" THEN r.fields[l]
                                ELSE get(summary, l)]]
      ELSE r : r \in table }

\* extract_text_from_pdf(pdf_path): the native text of every page; its
\* number of Sinhala characters
RECURSIVE si_in(_)
si_in(pages) == IF pages = <<>> THEN 0 ELSE Head(pages).si + si_in(Tail(pages))

ZeroTally == [fixed |-> 0, skipped |-> 0, failed |-> 0]

RowS(n, v) == [circular_number |-> n, language |-> "S",
               fields |-> [l \in Labels |-> IF l \in {"TOPIC", "SUMMARY"} THEN v
                                            ELSE "None"],
               key_instructions |-> "old", processed_at |-> "before"]

InitReprocess ==
    /\ rows = <<>>
    /\ ridx = 0
    /\ rpc = "start"
    /\ tally = ZeroTally

RNextRow ==
    IF ridx < Len(rows)
    THEN ridx' = ridx + 1 /\ rpc' = "row"
    ELSE ridx' = ridx /\ rpc' = "done"

\* rows = get_english_sinhala_rows(); "if not rows: return"
RStart ==
    /\ script = "reprocess_sinhala"
    /\ rpc = "start"
    /\ rows' = get_english_sinhala_rows(db)
    /\ IF rows' = <<>> THEN rpc' = "done" /\ ridx' = 0
                       ELSE rpc' = "row" /\ ridx' = 1
    /\ UNCHANGED <<tally, db, attempt, sum_log>>
    /\ UNCHANGED <<script, ledgerVars, site, disk, known_pairs, new_circulars, idx,
                   lang_i, pdf_paths, ppc, stats, px, net, exit_code, detVars,
                   parseVars, pathVars>>

\* the loop body up to the completion call: find_pdf, extract_text_from_pdf
RRow(opens) ==
    /\ script = "reprocess_sinhala"
    /\ rpc = "row"
    /\ LET number == rows[ridx]
           pair   == <<number, "S">>
           doc    == IF opens THEN site.docs[pair] ELSE Broken
       IN  IF disk[pair] = "none"
           THEN /\ opens
                /\ tally' = [tally EXCEPT !.skipped = @ + 1]
                /\ RNextRow
                /\ UNCHANGED <<attempt, sum_log>>
           ELSE IF ~doc.readable
           THEN /\ opens \/ disk[pair] = "partial"
                /\ tally' = [tally EXCEPT !.failed = @ + 1]
                /\ RNextRow
                /\ UNCHANGED <<attempt, sum_log>>
           ELSE IF si_in(doc.pages) = 0
           THEN /\ tally' = [tally EXCEPT !.skipped = @ + 1]
                /\ RNextRow
                /\ UNCHANGED <<attempt, sum_log>>
           ELSE /\ rpc' = "groq"
                /\ attempt' = 0
                /\ sum_log' = [number |-> number, lang |-> "S", outcomes |-> <<>>,
                               waits |-> <<>>, result |-> "pending", raw |-> <<>>]
                /\ UNCHANGED <<tally, ridx>>
    /\ UNCHANGED <<rows, db>>
    /\ UNCHANGED <<script, ledgerVars, site, disk, known_pairs, new_circulars, idx,
                   lang_i, pdf_paths, ppc, stats, px, net, exit_code, detVars,
                   parseVars, pathVars>>

\* one pass of the retry loop of main, and the rest of the loop body once the
\* retry loop is left
RAttempt(o) ==
    /\ script = "reprocess_sinhala"
    /\ rpc = "groq"
    /\ LET number  == rows[ridx]
           summary == re_parse_response(o.raw)
           tried   == Append(sum_log.outcomes, IF o.kind = "reply" THEN "reply" ELSE o.err)
           si_new  == sinhala_chars(get(summary, "TOPIC"))
                      + sinhala_chars(get(summary, "SUMMARY"))
       IN  IF o.kind = "reply"
           THEN /\ sum_log' = [sum_log EXCEPT !.outcomes = tried, !.result = "summary",
                                                 !.raw = o.raw]
                /\ IF truthy(summary)
                   THEN /\ db' = update_db(db, number, summary)
                        /\ tally' = IF si_new > SINHALA_MIN
                                    THEN [tally EXCEPT !.fixed = @ + 1]
                                    ELSE [tally EXCEPT !.failed = @ + 1]
                   ELSE /\ tally' = [tally EXCEPT !.failed = @ + 1]
                        /\ UNCHANGED db
                /\ RNextRow
                /\ UNCHANGED attempt
           ELSE IF re_is_rate_limit(o.err)
           THEN IF attempt + 1 < MAX_ATTEMPTS
                THEN /\ sum_log' = [sum_log EXCEPT !.outcomes = tried,
                                      !.waits = Append(@, backoff(attempt))]
                     /\ attempt' = attempt + 1
                     /\ UNCHANGED <<db, tally, rpc, ridx>>
                ELSE /\ sum_log' = [sum_log EXCEPT !.outcomes = tried,
                                      !.waits = Append(@, backoff(attempt)),
                                      !.result = "none"]
                     /\ tally' = [tally EXCEPT !.failed = @ + 1]
                     /\ RNextRow
                     /\ UNCHANGED <<db, attempt>>
           ELSE \* any other error: break
                /\ sum_log' = [sum_log EXCEPT !.outcomes = tried, !.result = "none"]
                /\ tally' = [tally EXCEPT !.failed = @ + 1]
                /\ RNextRow
                /\ UNCHANGED <<db, attempt>>
    /\ UNCHANGED rows
    /\ UNCHANGED <<script, ledgerVars, site, disk, known_pairs, new_circulars, idx,
                   lang_i, pdf_paths, ppc, stats, px, net, exit_code, detVars,
                   parseVars, pathVars>>

NextReprocess ==
    \/ RStart
    \/ \E opens \in BOOLEAN : RRow(opens)
    \/ \E o \in ROutcomes : RAttempt(o)

----------------------------------------------------------------------------
(* new_detector.py *)

RECURSIVE det_rows(_, _)
\* the loop over the trs of one listing page in scrape_all_circulars
det_rows(trs, titles) ==
    IF trs = <<>> THEN <<>>
    ELSE LET row == Head(trs)
         IN  IF ~parse_row_ok(row) \/ row.year \notin TARGET_YEARS
             THEN det_rows(Tail(trs), titles)
             ELSE <<[number |-> row.number, title |-> titles[row.number],
                     year |-> row.year, detail_url |-> row.detail_url]>>
                  \o det_rows(Tail(trs), titles)

\* whether the while loop of scrape_all_circulars ever breaks: a fetch raises
\* or a page holds a row of an old year.  Unlike scrape_new_circulars it has
\* no break on a page without rows.
walk_ends(pages, fail_at) ==
    fail_at # 0 \/ \E k \in 1..Len(pages) : found_old(parsed_rows(pages[k]))

RECURSIVE scrape_all_from(_, _, _, _)
\* the while loop of scrape_all_circulars from listing page k on, for a walk
\* that ends
scrape_all_from(pages, k, fail_at, titles) ==
    IF k = fail_at
    THEN [found |-> <<>>, requested |-> <<k>>]
    ELSE LET rest == IF found_old(parsed_rows(page_at(pages, k)))
                     THEN [found |-> <<>>, requested |-> <<>>]
                     ELSE scrape_all_from(pages, k + 1, fail_at, titles)
         IN  [found     |-> det_rows(page_at(pages, k), titles) \o rest.found,
              requested |-> <<k>> \o rest.requested]

\* load_db_state(): per stored number its languages and the topic of its
\* English row when that topic is not empty
load_db_state(table) ==
    [n \in { r.circular_number : r \in table } |->
       [languages |-> { r.language : r \in { x \in table : x.circular_number = n } },
        topic_en  |-> IF \E r \in table : /\ r.circular_number = n /\ r.language = "E"
                                          /\ r.fields["TOPIC"] # "None"
                      THEN (CHOOSE r \in table : /\ r.circular_number = n
                                                 /\ r.language = "E").fields["TOPIC"]
                      ELSE "None"]]

\* "stored_topic and site_title and stored_topic not in site_title and
\* site_title not in stored_topic", on the texts of the model
title_differs(stored_topic, site_title) ==
    stored_topic # "None" /\ stored_topic # site_title

\* detect_changes(website, db_state)
detect_changes(ws, st) ==
    LET is_new(c)  == c.number \notin DOMAIN st
        missing(c) == { l \in Langs : l \notin st[c.number].languages }
        changed(c) == title_differs(st[c.number].topic_en, c.title)
        lacks(c)   == ~is_new(c) /\ missing(c) # {}
        amended(c) == ~is_new(c) /\ changed(c)
        same(c)    == ~is_new(c) /\ ~changed(c) /\ missing(c) = {}
    IN  [new          |-> SelectSeq(ws, is_new),
         missing_lang |-> SelectSeq(ws, lacks),
         title_change |-> SelectSeq(ws, amended),
         up_to_date   |-> SelectSeq(ws, same)]

\* the status main leaves with a report written: exit(1) when something is
\* actionable, a return otherwise
exit_never(n_actionable) == EXIT_OK

exit_of_scan(n_actionable) == IF n_actionable > 0 THEN EXIT_ERR ELSE EXIT_OK

NoChanges == [new |-> <<>>, missing_lang |-> <<>>, title_change |-> <<>>,
              up_to_date |-> <<>>]

InitDetector ==
    /\ dpc = "start"
    /\ website = <<>>
    /\ changes = NoChanges

\* website_circulars = scrape_all_circulars(); db_state = load_db_state();
\* changes = detect_changes(website_circulars, db_state).  A walk that never
\* breaks stays in scrape_all_circulars; of its requests the ones up to the
\* first page past the listing are recorded.
DScan(fail_at) ==
    /\ script = "new_detector"
    /\ dpc = "start"
    /\ IF walk_ends(site.listing, fail_at)
       THEN LET walk == scrape_all_from(site.listing, 1, fail_at, site.titles)
            IN  /\ website' = walk.found
                /\ net' = Requests(walk.requested, fail_at)
                /\ changes' = detect_changes(walk.found, load_db_state(db))
                /\ dpc' = "report"
       ELSE /\ net' = Requests([k \in 1..(Len(site.listing) + 1) |-> k], 0)
            /\ dpc' = "scanning"
            /\ UNCHANGED <<website, changes>>
    /\ UNCHANGED <<site, db, disk, known_pairs, new_circulars, idx, lang_i, pdf_paths,
                   ppc, stats, px, attempt, sum_log, exit_code>>
    /\ UNCHANGED <<script, ledgerVars, reVars, parseVars, pathVars>>

\* print_report, save_report, notify_slack (which catches its errors) and the
\* exit; save_report's write_text is outside any try
DReport(report_ok) ==
    /\ script = "new_detector"
    /\ dpc = "report"
    /\ IF report_ok
       THEN /\ dpc' = "done"
            /\ exit_code' = exit_of_scan(Len(changes.new) + Len(changes.missing_lang))
       ELSE /\ dpc' = "crashed"
            /\ exit_code' = EXIT_ERR
    /\ UNCHANGED <<site, db, disk, known_pairs, new_circulars, idx, lang_i, pdf_paths,
                   ppc, stats, px, attempt, sum_log, net>>
    /\ UNCHANGED <<website, changes>>
    /\ UNCHANGED <<script, ledgerVars, reVars, parseVars, pathVars>>

NextDetector ==
    \/ \E fail_at \in 0..2 : DScan(fail_at)
    \/ \E report_ok \in BOOLEAN : DReport(report_ok)

----------------------------------------------------------------------------
(* parse_response on its own *)

\* no result yet: parse_response has not returned
NotParsed == [fields |-> EmptyResult, key_instructions |-> FALSE]

InitParse ==
    /\ reply \in (IF script = "parse_response" THEN ReplyTexts ELSE {<<>>})
    /\ parsed = NotParsed

\* summary = parse_response(raw)
Parse ==
    /\ script = "parse_response"
    /\ parsed = NotParsed
    /\ parsed' = parse_response(reply)
    /\ UNCHANGED reply
    /\ UNCHANGED <<script, ledgerVars, pipeVars, reVars, detVars, pathVars>>

NextParse == Parse

----------------------------------------------------------------------------
(* The cache paths on their own *)

\* The characters of a bulletin number (a number is the sequence of its
\* characters) and the numbers of one to MaxChars characters.
Chars == {"1", "/", "-", ":", " "}

NumberTexts == UNION { [1..n -> Chars] : n \in 1..MaxChars }

\* number.replace('/', '-').replace('\\', '-'), character by character
replace_slashes(c) == IF c \in {"/", "\\"} THEN "-" ELSE c

\* "if c not in ':*?"<>|'"
kept(c) == c \notin {":", "*", "?", "\"", "<", ">", "|"}

RECURSIVE lstrip(_)
lstrip(t) == IF t # <<>> /\ Head(t) = " " THEN lstrip(Tail(t)) ELSE t

RECURSIVE rstrip(_)
rstrip(t) ==
    IF t # <<>> /\ t[Len(t)] = " " THEN rstrip(SubSeq(t, 1, Len(t) - 1)) ELSE t

\* str.strip()
strip(t) == rstrip(lstrip(t))

\* safe_filename(number)
safe_filename(number) ==
    strip(SelectSeq([i \in 1..Len(number) |-> replace_slashes(number[i])], kept))

\* {'E': 'English', 'S': 'Sinhala'}.get(lang_code, lang_code)
lang_folder(lang_code) ==
    CASE lang_code = "E" -> "English"
      [] lang_code = "S" -> "Sinhala"
      [] OTHER           -> lang_code

\* build_pdf_path(circular, lang_code), once the folder exists
build_pdf_path(circular, lang_code) ==
    [root |-> "downloads", year |-> circular.year, folder |-> lang_folder(lang_code),
     name |-> safe_filename(circular.number), ext |-> ".pdf"]

\* build_txt_path(circular, lang_code), once the folder exists
build_txt_path(circular, lang_code) ==
    [root |-> "extracted_text", year |-> circular.year,
     folder |-> lang_folder(lang_code),
     name |-> safe_filename(circular.number), ext |-> ".txt"]

NoPaths == [lang |-> "", pdf |-> <<>>, txt |-> <<>>]

InitPaths ==
    /\ bulletins = <<>>
    /\ paths = NoPaths

\* the paths of two bulletins of one year, for one language
BuildPaths(n1, n2, lang_code) ==
    /\ script = "build_pdf_path"
    /\ bulletins = <<>>
    /\ bulletins' = << [number |-> n1, year |-> "2025"], [number |-> n2, year |-> "2025"] >>
    /\ paths' = [lang |-> lang_code,
                 pdf  |-> [i \in 1..2 |-> build_pdf_path(bulletins'[i], lang_code)],
                 txt  |-> [i \in 1..2 |-> build_txt_path(bulletins'[i], lang_code)]]
    /\ UNCHANGED <<script, ledgerVars, pipeVars, reVars, detVars, parseVars>>

NextPaths ==
    /\ script = "build_pdf_path"
    /\ bulletins = <<>>
    /\ \E n1, n2 \in NumberTexts, lang_code \in Langs : BuildPaths(n1, n2, lang_code)

----------------------------------------------------------------------------
Scripts == {"ocr_vision", "run_pipeline", "reprocess_sinhala", "new_detector",
            "parse_response", "build_pdf_path"}

\* both languages of 10/2025 and 11/2025, stored by earlier runs
FullRows ==
    { [circular_number |-> n, language |-> l,
       fields |-> [k \in Labels |-> IF k = "TOPIC" THEN "X" ELSE "None"],
       key_instructions |-> "old", processed_at |-> "before"] :
      n \in {"10/2025", "11/2025"}, l \in Langs }

\* Each behaviour runs one script; what the other scripts own starts at one
\* fixed value.  reprocess_sinhala starts from rows and files that earlier
\* runs of run_pipeline left.
Init ==
    /\ script \in Scripts
    /\ InitLedger
    /\ InitPipeline
    /\ InitReprocess
    /\ InitDetector
    /\ InitParse
    /\ InitPaths
    /\ CASE script = "run_pipeline" ->
              /\ site \in Sites
              /\ db \in InitialRows \cup {FullRows}
              /\ disk = [pr \in Pairs |-> "none"]
              /\ USAGE_FILE.state = "ok" /\ USAGE_FILE.pages_used # 0
         [] script = "new_detector" ->
              /\ site \in Sites
              /\ db \in InitialRows \cup {FullRows}
              /\ disk = [pr \in Pairs |-> "none"]
              /\ USAGE_FILE = NoFile /\ ~GOOGLE_VISION_API_KEY
         [] script = "reprocess_sinhala" ->
              /\ site \in Sites
              /\ db \in { {RowS("10/2025", "X")},
                          {RowS("10/2025", "X"), RowS("11/2025", "X"),
                           RowS("09/2024", "SI")} }
              /\ disk \in { [pr \in Pairs |-> IF pr[1] = "10/2025" THEN "full" ELSE d] :
                               d \in {"none", "partial"} }
              /\ USAGE_FILE = NoFile /\ ~GOOGLE_VISION_API_KEY
         [] script \in {"parse_response", "build_pdf_path"} ->
              /\ site = SiteA
              /\ db = {}
              /\ disk = [pr \in Pairs |-> "none"]
              /\ USAGE_FILE = NoFile /\ ~GOOGLE_VISION_API_KEY
         [] OTHER ->
              /\ site = SiteA
              /\ db = {}
              /\ disk = [pr \in Pairs |-> "none"]

Next == NextLedger \/ NextPipeline \/ NextReprocess \/ NextDetector \/ NextParse
        \/ NextPaths

Spec == Init /\ [][Next]_vars

----------------------------------------------------------------------------
(* The claims *)

\* C1: from a ledger holding at most EFFECTIVE_CAP (950) pages, whatever the
\* cloud answers, whether a credential is set and however often the process
\* restarts and reloads the ledger, pages_used never exceeds 950, in memory
\* or on disk.
C1_BudgetNeverExceeded ==
    /\ usage.pages_used <= EFFECTIVE_CAP
    /\ USAGE_FILE.state = "ok" => USAGE_FILE.pages_used <= EFFECTIVE_CAP

C1_Witness ==
    /\ script = "ocr_vision"
    /\ USAGE_FILE.state = "ok" /\ USAGE_FILE.pages_used = EFFECTIVE_CAP
    /\ last.method = "vision"
    /\ loaded.valid /\ loaded.pages_used < EFFECTIVE_CAP

\* a step of extract_text's loop that handed a page to ocr_page
OcrPageCalled == calls' = calls + 1 /\ ocr_stats'.native = ocr_stats.native

\* the page went to Tesseract and the ledger was left alone
WentLocal ==
    /\ pc' = "idle"
    /\ last'.method = "tesseract"
    /\ ocr_stats'.tesseract = ocr_stats.tesseract + 1
    /\ ocr_stats'.vision = ocr_stats.vision
    /\ usage' = usage
    /\ USAGE_FILE' = USAGE_FILE

\* C2: with pages_used at the effective cap, a page that needs OCR goes to
\* Tesseract: no request is issued and the ledger is not touched, with or
\* without a credential.
C2_CapRoutesToLocal ==
    [][ (OcrPageCalled /\ usage.pages_used = EFFECTIVE_CAP) => WentLocal ]_vars

C2_Witness ==
    /\ usage.pages_used = EFFECTIVE_CAP
    /\ GOOGLE_VISION_API_KEY
    /\ ocr_stats.vision >= 1
    /\ last.reason = "cap"

\* C3: while the process runs, pages_used grows by exactly 1 in the step in
\* which a cloud request returns its result, and changes in no other step.
C3_IncrementOnlyAfterResult ==
    [][ (pc # "down" /\ pc' # "down") =>
          IF pc = "urlopen" /\ pc' = "save_open"
          THEN usage'.pages_used = usage.pages_used + 1
          ELSE usage'.pages_used = usage.pages_used ]_vars

C3_Witness ==
    /\ pc = "save_open"
    /\ loaded.valid
    /\ usage.pages_used = loaded.pages_used + 1

\* C4: when the cloud request ends in an error of any kind, or no credential
\* is set, the page goes to Tesseract and is tallied there, pages_used is
\* unchanged and the loop is ready for the next page of the document.
C4_CloudErrorFallsBack ==
    [][ /\ (pc = "urlopen" /\ pc' \notin {"urlopen", "save_open"}
             /\ last'.reason # "stopped") => WentLocal
        /\ (OcrPageCalled /\ ~GOOGLE_VISION_API_KEY) => WentLocal ]_vars

\* C5: within one month a load never returns less than an earlier load of
\* that month did, and a load returns zero for a stored non-zero entry only
\* when the entry's month key differs from the current month.
C5_LoadedCountMonotone ==
    [][ (pc = "down" /\ pc' = "idle") =>
          /\ (loaded.valid /\ loaded.at = now_month)
                => usage'.pages_used >= loaded.pages_used
          /\ (USAGE_FILE.state # "missing" /\ usage'.pages_used = 0)
                => /\ USAGE_FILE.state = "ok"
                   /\ USAGE_FILE.month # now_month \/ USAGE_FILE.pages_used = 0 ]_vars

\* C6: a process that stopped, wherever it stopped, leaves a complete ledger
\* entry (or none) on disk.
C6_InterruptedSaveLeavesEntry ==
    pc = "down" => USAGE_FILE.state \in {"missing", "ok"}

\* the page handed to the quota-gated ladder was accepted as native text
AcceptedNative ==
    /\ ocr_stats'.native = ocr_stats.native + 1
    /\ ocr_stats'.tesseract = ocr_stats.tesseract
    /\ ocr_stats'.vision = ocr_stats.vision
    /\ pc' = "idle"

\* the pipeline's extract_text accepted every page at or above MIN_CHARS_PAGE
PipelineKeepsNative ==
    px.valid =>
        \A i \in 1..Len(px.doc.pages) :
            px.doc.pages[i].len >= MIN_CHARS_PAGE
                => px.parts[i].tier = "native" /\ px.parts[i].engine = "none"

\* C7 as stated: in both extraction routines a page whose native text meets
\* the character threshold is accepted without any OCR call.
C7_NativeAlwaysAccepted ==
    /\ []PipelineKeepsNative
    /\ [][ (calls' = calls + 1 /\ page'.len > NATIVE_MIN_CHARS) => AcceptedNative ]_vars

\* C7 amended: the pipeline accepts every page of at least MIN_CHARS_PAGE
\* characters without OCR; the quota-gated ladder accepts a page without OCR
\* exactly when it has more than 100 characters of which at least 5% are
\* Sinhala, and hands every other page to ocr_page.
C7_NativeAcceptedPerRoutine ==
    /\ []PipelineKeepsNative
    /\ [][ calls' = calls + 1 =>
             IF page'.len > 100 /\ page'.si * 100 >= 5 * page'.len
             THEN AcceptedNative
             ELSE ocr_stats'.native = ocr_stats.native ]_vars

C7_Witness ==
    /\ script = "run_pipeline"
    /\ px.valid
    /\ \E i, j \in 1..Len(px.parts) :
          /\ px.doc.pages[i].len >= MIN_CHARS_PAGE /\ px.parts[i].tier = "native"
          /\ px.parts[j].tier = "OCR"

\* the ledger as a process starting now would load it has budget left
BudgetLeft == load_usage(USAGE_FILE, now_month).pages_used < EFFECTIVE_CAP

\* C8 as stated: in the default run a page that needs OCR goes to the cloud
\* engine whenever budget remains and the credential is set.
C8_PipelineUsesCloud ==
    (script = "run_pipeline" /\ px.valid /\ BudgetLeft /\ GOOGLE_VISION_API_KEY) =>
        \A i \in 1..Len(px.parts) :
            px.parts[i].tier = "OCR" => px.parts[i].engine = "vision"

\* C8 amended: in the default run every page that needs OCR goes to Tesseract
\* with the hint of its language, whatever the budget and the credential, and
\* the run never writes the ledger.
C8_PipelineUsesLocalOnly ==
    /\ [](script = "run_pipeline" /\ px.valid =>
            \A i \in 1..Len(px.parts) :
                px.doc.pages[i].len < MIN_CHARS_PAGE =>
                    /\ px.parts[i].engine = "tesseract"
                    /\ px.parts[i].hint = (IF px.lang = "S" THEN "sin" ELSE "eng"))
    /\ [][ script = "run_pipeline" => USAGE_FILE' = USAGE_FILE /\ usage' = usage ]_vars

C8_Witness ==
    /\ script = "run_pipeline"
    /\ px.valid /\ BudgetLeft /\ GOOGLE_VISION_API_KEY
    /\ \E i \in 1..Len(px.parts) : px.parts[i].engine = "tesseract"

\* every request of the completion call was answered by a rate-limit error
AllRateLimited(log) ==
    /\ log.outcomes # <<>>
    /\ \A i \in 1..Len(log.outcomes) : log.outcomes[i] \in {"413", "429"}

\* C9: a completion call of the default run that met only rate-limit errors
\* made exactly 3 attempts, returned no summary, was counted as failed, wrote
\* no row, and the run went on with the next language or bulletin.
C9_RateLimitThreeAttempts ==
    /\ [](script = "run_pipeline" /\ AllRateLimited(sum_log) =>
            /\ Len(sum_log.outcomes) <= 3
            /\ sum_log.result # "summary"
            /\ sum_log.result = "none" <=> Len(sum_log.outcomes) = 3)
    /\ [][ (script = "run_pipeline" /\ sum_log.result = "pending"
            /\ sum_log'.result = "none" /\ AllRateLimited(sum_log')) =>
              /\ stats'.failed = stats.failed + 1
              /\ stats'.summarised = stats.summarised
              /\ db' = db
              /\ ppc' \in {"lang", "append"} ]_vars

C9_Witness ==
    /\ script = "run_pipeline"
    /\ AllRateLimited(sum_log)
    /\ Len(sum_log.outcomes) = 3
    /\ sum_log.result = "none"
    /\ stats.failed >= 1
    /\ ppc = "lang"

\* the markers the running script takes for a rate limit
RateLimitMarkers == IF script = "reprocess_sinhala" THEN {"429"} ELSE {"413", "429"}

\* the failed tally of the running script
Failed == IF script = "reprocess_sinhala" THEN tally.failed ELSE stats.failed

\* C10: an error outside the rate-limit class ends the completion call: it is
\* the call's last attempt, no wait follows it, the call yields no summary and
\* the caller counts a failure.
C10_OtherErrorNoRetry ==
    /\ [](\A i \in 1..Len(sum_log.outcomes) :
            sum_log.outcomes[i] \notin RateLimitMarkers \cup {"reply"} =>
                /\ i = Len(sum_log.outcomes)
                /\ Len(sum_log.waits) = i - 1
                /\ sum_log.result = "none")
    /\ [][ (sum_log.result = "pending" /\ sum_log'.result = "none"
            /\ sum_log'.outcomes[Len(sum_log'.outcomes)] \notin RateLimitMarkers) =>
              /\ Failed' = Failed + 1
              /\ db' = db ]_vars

C10_Witness ==
    /\ script = "run_pipeline"
    /\ sum_log.outcomes = <<"other">>
    /\ sum_log.waits = <<>>
    /\ sum_log.result = "none"
    /\ stats.failed >= 1

\* the rows the table holds for a pair
RowsOf(number, lang_code) ==
    { r \in db : r.circular_number = number /\ r.language = lang_code }

\* C11: whatever was upserted, by this run or by earlier ones, and however
\* often the same bulletin was upserted, the table holds at most one row for
\* each (circular_number, language).
C11_OneRowPerPair ==
    \A r1, r2 \in db :
        (r1.circular_number = r2.circular_number /\ r1.language = r2.language)
            => r1 = r2

C11_Witness ==
    /\ script = "run_pipeline"
    /\ idx = 3
    /\ new_circulars[3].number = new_circulars[2].number
    /\ sum_log.lang = "E" /\ sum_log.result = "summary"
    /\ stats.summarised = 3
    /\ Cardinality(RowsOf(new_circulars[3].number, "E")) = 1

\* C12: every write of a row, by the ingestion run or by a reprocessing run,
\* leaves a row all of whose attributes come from that write: its processing
\* time is the time of the write and its key instructions are those of the
\* summary written, nothing of the earlier row being kept.
C12_WriteReplacesWholeRow ==
    [][ \A r \in db' \ db :
            r.processed_at = "run" /\ r.key_instructions = "[]" ]_vars

\* C13: for a pair that was in known_pairs when the run started, the run
\* requests no PDF, makes no completion call and writes no row.
C13_KnownPairsUntouched ==
    /\ [](script = "run_pipeline" =>
            \A pr \in known_pairs :
                /\ pr \notin net.pdfs
                /\ <<sum_log.number, sum_log.lang>> # pr)
    /\ [][ script = "run_pipeline" =>
             \A pr \in known_pairs : RowsOf(pr[1], pr[2])' = RowsOf(pr[1], pr[2]) ]_vars

\* the listing pages the walk requested and received
SeenPages ==
    { k \in 1..Len(site.listing) :
        k # net.failed /\ \E i \in 1..Len(net.pages) : net.pages[i] = k }

\* C14: of the rows the detector of run_pipeline read, one whose year is in
\* the target window is emitted exactly when (number, 'E') or (number, 'S')
\* is not in known_pairs, and an emitted row carries needs_en and needs_si
\* saying exactly which of the two is not.
C14_NeedsFlagsExact ==
    (script = "run_pipeline" /\ ppc # "start") =>
        /\ \A k \in SeenPages : \A i \in 1..Len(site.listing[k]) :
              LET row == site.listing[k][i]
              IN  row.year \in {"2025", "2026"} =>
                    ((\E j \in 1..Len(new_circulars) :
                          new_circulars[j].number = row.number)
                     <=> (<<row.number, "E">> \notin known_pairs
                          \/ <<row.number, "S">> \notin known_pairs))
        /\ \A j \in 1..Len(new_circulars) :
              LET c == new_circulars[j]
              IN  /\ c.needs_en <=> <<c.number, "E">> \notin known_pairs
                  /\ c.needs_si <=> <<c.number, "S">> \notin known_pairs
                  /\ c.needs_en \/ c.needs_si

C14_Witness ==
    /\ script = "run_pipeline"
    /\ known_pairs = { <<"10/2025", "E">> }
    /\ \E j \in 1..Len(new_circulars) :
          /\ new_circulars[j].number = "10/2025"
          /\ ~new_circulars[j].needs_en
          /\ new_circulars[j].needs_si


\* the listing pages requested by the walk of this run
PagesRequested == { net.pages[i] : i \in 1..Len(net.pages) }

\* page k of the listing shows a row with a date outside 2025 and 2026
HasOldRow(k) ==
    /\ k \in 1..Len(site.listing)
    /\ \E i \in 1..Len(site.listing[k]) :
          site.listing[k][i].year \notin {"2025", "2026", NO_DATE}

\* the walk over the listing is over
WalkedPipeline == script = "run_pipeline" /\ ppc # "start"
WalkedDetector == script = "new_detector" /\ dpc \in {"report", "done", "crashed"}

\* the target-year rows of listing page p
TargetRows(p) ==
    { site.listing[p][i] : i \in { j \in 1..Len(site.listing[p]) :
                                     site.listing[p][j].year \in {"2025", "2026"} } }

\* C15: once a fetched listing page holds a row whose year is outside the
\* window, no later page is requested, and every candidate of that page and of
\* the pages before it is returned (by the pipeline's walk: the rows with a
\* language missing; by the detector's walk: every target-year row).
C15_StopAtOldYear ==
    \A k \in PagesRequested :
       (k # net.failed /\ HasOldRow(k) /\ script \in {"run_pipeline", "new_detector"}) =>
          /\ \A j \in PagesRequested : j <= k
          /\ WalkedPipeline =>
                \A p \in 1..k : \A row \in TargetRows(p) :
                   (\E l \in {"E", "S"} : <<row.number, l>> \notin known_pairs) =>
                      \E j \in 1..Len(new_circulars) :
                         /\ new_circulars[j].number = row.number
                         /\ new_circulars[j].detail_url = row.detail_url
          /\ WalkedDetector =>
                \A p \in 1..k : \A row \in TargetRows(p) :
                   \E j \in 1..Len(website) : website[j].number = row.number

C15_Witness ==
    /\ WalkedPipeline /\ ppc = "done"
    /\ site = SiteB
    /\ net.pages = <<1, 2>> /\ net.failed = 0
    /\ HasOldRow(2)
    /\ Len(new_circulars) = 2


\* the positions <<page, row>> of the target-year rows on the listing pages
\* before page k
TargetBefore(k) ==
    { pos \in (1..Len(site.listing)) \X (1..2) :
        /\ pos[1] < k
        /\ pos[2] <= Len(site.listing[pos[1]])
        /\ site.listing[pos[1]][pos[2]].year \in {"2025", "2026"} }

\* those of them with a tracked language that has no stored row
CandidatesAmong(k, known) ==
    { pos \in TargetBefore(k) :
        \E l \in {"E", "S"} : <<site.listing[pos[1]][pos[2]].number, l>> \notin known }

CandidatesBefore(k) == CandidatesAmong(k, known_pairs)

\* C16: when the fetch of listing page k fails the walk stops there without
\* raising, what it returns is exactly the candidates of the pages before k,
\* and the run goes on with them.
C16_FetchFailureStopsWalk ==
    /\ [](net.failed # 0 =>
            /\ \A j \in PagesRequested : j <= net.failed
            /\ WalkedPipeline =>
                  /\ Len(new_circulars) = Cardinality(CandidatesBefore(net.failed))
                  /\ { new_circulars[j].number : j \in 1..Len(new_circulars) }
                       = { site.listing[pos[1]][pos[2]].number :
                             pos \in CandidatesBefore(net.failed) }
            /\ WalkedDetector =>
                  /\ Len(website) = Cardinality(TargetBefore(net.failed))
                  /\ { website[j].number : j \in 1..Len(website) }
                       = { site.listing[pos[1]][pos[2]].number :
                             pos \in TargetBefore(net.failed) })
    /\ [][ (net.failed = 0 /\ net'.failed # 0) =>
             /\ script = "run_pipeline" =>
                   /\ ppc' = (IF CandidatesAmong(net'.failed, known_pairs') = {} THEN "done" ELSE "circular")
                   /\ exit_code' # EXIT_ERR
             /\ script = "new_detector" => (dpc' = "report" /\ exit_code' = RUNNING) ]_vars

C16_Witness ==
    /\ script = "run_pipeline" /\ site = SiteA
    /\ net.pages = <<1, 2>> /\ net.failed = 2
    /\ Len(new_circulars) = 2
    /\ ppc = "done" /\ exit_code = EXIT_OK


\* C17: no failure inside the body of the per-bulletin loop (detail fetch, PDF
\* download, cache directory or text file write, extraction, completion call,
\* repository write) leaves the loop: the run never ends on an exception, it
\* ends only after the last bulletin of new_circulars was taken up.
C17_LoopBodyNeverRaises ==
    script = "run_pipeline" =>
       /\ ppc # "crashed"
       /\ exit_code # RUNNING => (exit_code = EXIT_OK /\ idx = Len(new_circulars))


\* the text extracted last has content besides the page headers
UsableText == \E i \in 1..Len(px.parts) : px.parts[i].body # ""

\* C18: when extraction yields no usable text (every page a scan for which
\* OCR returns nothing) no completion call is made for that bulletin and
\* language and no row is stored for it: a completion call is under way, or a
\* row was written by this run, only for a text with usable content.
C18_NoTextNoCompletion ==
    script = "run_pipeline" =>
       /\ ppc = "summarise" => UsableText
       /\ (sum_log.result = "summary" /\ px.lang = sum_log.lang) => UsableText


\* the lines of the reply that hold a ':' after the label l, in any case
LabelLines(l) ==
    { i \in 1..Len(reply) :
        /\ reply[i].colon
        /\ reply[i].key \in (IF l = "TOPIC" THEN {"TOPIC", "topic"} ELSE {l}) }

\* C19: for any reply text parse_response returns a result whose fields are
\* exactly the recognised labels that appear as 'LABEL: value' lines, each
\* with the value of its last such line; a value that is the word null is an
\* absent value (None); lines without a recognised label contribute nothing.
C19_ParseResponse ==
    (script = "parse_response" /\ parsed # NotParsed) =>
       \A l \in Labels :
          IF LabelLines(l) = {}
          THEN parsed.fields[l] = "ABSENT"
          ELSE LET final == CHOOSE i \in LabelLines(l) : \A j \in LabelLines(l) : j <= i
               IN  parsed.fields[l] = (IF reply[final].val \in {"null", "NULL"}
                                       THEN "None" ELSE reply[final].val)

\* the reply that holds only 'TOPIC: X'
C19_Witness ==
    /\ script = "parse_response"
    /\ reply = << Line("TOPIC", "X") >>
    /\ parsed # NotParsed
    /\ parsed.fields["TOPIC"] = "X"
    /\ \A l \in Labels \ {"TOPIC"} : parsed.fields[l] = "ABSENT"


\* C20 as stated: a run of the full pipeline that reaches its end leaves with
\* a non-zero status when its detection step found at least one new or
\* incomplete bulletin, and with status zero when it found none.
C20_PipelineExitSignalsNew ==
    (script = "run_pipeline" /\ ppc = "done") =>
       (exit_code # EXIT_OK <=> new_circulars # <<>>)

\* a bulletin the scan listed lacks a stored row for English or for Sinhala
Actionable ==
    \E j \in 1..Len(website) : \E l \in {"E", "S"} :
       \A r \in db : ~(r.circular_number = website[j].number /\ r.language = l)

\* C20: it is the scan-only detector that signals findings by its status: once
\* its report is written it leaves with 1 when a listed bulletin is new or
\* lacks a language and with 0 when none is.  The full pipeline leaves with 0
\* whenever it runs to its end, whatever it found, and with a non-zero status
\* only when an exception ends it.
C20_ExitStatus ==
    /\ (script = "new_detector" /\ dpc = "done") =>
          exit_code = (IF Actionable THEN 1 ELSE 0)
    /\ (script = "new_detector" /\ dpc \in {"start", "scanning", "report"}) =>
          exit_code = RUNNING
    /\ script = "run_pipeline" =>
          /\ ppc = "done" => exit_code = 0
          /\ ppc = "crashed" => exit_code = 1
          /\ ppc \notin {"done", "crashed"} => exit_code = RUNNING

C20_Witness ==
    /\ script = "new_detector" /\ dpc = "done"
    /\ changes.new # <<>>
    /\ Actionable
    /\ exit_code = 1


\* the needed (bulletin, language) pairs of this run for which the detail
\* page publishes a PDF link, by position in new_circulars
NeededWithLink ==
    { pos \in (1..Len(new_circulars)) \X {"E", "S"} :
        /\ <<new_circulars[pos[1]].number, pos[2]>> \notin known_pairs
        /\ new_circulars[pos[1]].detail_url
        /\ pos[2] \in site.links[new_circulars[pos[1]].number] }

\* C21: at the end of a run every needed pair with a published PDF link was
\* either summarised or counted in the failed tally: the two tallies add up
\* to the number of such pairs.
C21_EveryFailureTallied ==
    (script = "run_pipeline" /\ ppc = "done") =>
       stats.summarised + stats.failed = Cardinality(NeededWithLink)


\* C22: a rate-limit error at attempt index a is followed by a wait of
\* 20 * (a + 1) seconds and then by another attempt: the i-th wait of a
\* completion call lasts 20 * i seconds, at most 3 attempts are made, and a
\* call that has returned made one attempt more than it made waits.
C22_EveryWaitThenRetry ==
    script \in {"run_pipeline", "reprocess_sinhala"} =>
       /\ \A i \in 1..Len(sum_log.waits) : sum_log.waits[i] = 20 * i
       /\ Len(sum_log.outcomes) <= 3
       /\ (sum_log.result # "pending" /\ sum_log.outcomes # <<>>) =>
             Len(sum_log.waits) < Len(sum_log.outcomes)


\* the value the last 'LABEL: value' line of the reply text raw gives label l,
\* "None" when the reply holds no such line or the value is the word null
LabelValue(raw, l) ==
    LET at == { i \in 1..Len(raw) :
                  /\ raw[i].colon
                  /\ raw[i].key \in (IF l = "TOPIC" THEN {"TOPIC", "topic"} ELSE {l}) }
    IN  IF at = {} THEN "None"
        ELSE LET final == CHOOSE i \in at : \A j \in at : j <= i
             IN  IF raw[final].val \in {"null", "NULL"} THEN "None" ELSE raw[final].val

BucketsHolding(c) ==
    Cardinality({ b \in {"new", "missing_lang", "title_change", "up_to_date"} :
                    \E i \in 1..Len(changes[b]) : changes[b][i] = c })

\* C24: detect_changes puts each scanned circular into exactly one of the
\* buckets new, missing_lang, title_change and up_to_date, so the bucket sizes
\* add up to the number of circulars scanned.
C24_OneBucketEach ==
    WalkedDetector =>
       /\ \A j \in 1..Len(website) : BucketsHolding(website[j]) = 1
       /\ Len(changes.new) + Len(changes.missing_lang) + Len(changes.title_change)
            + Len(changes.up_to_date) = Len(website)


\* C25: on a finite listing the walk of either scraper ends even when no row
\* of an old year is seen and no fetch fails: it requests no page beyond the
\* first one that shows no data row, and it returns (the detector's walk is
\* never left turning in its loop).
C25_WalkTerminates ==
    /\ script \in {"run_pipeline", "new_detector"} =>
          \A k \in PagesRequested : k <= Len(site.listing) + 1
    /\ script = "new_detector" => dpc # "scanning"


\* the first listing page that shows a row of an old year, or the last page
\* when none does
FirstOldPage ==
    IF \E k \in 1..Len(site.listing) : HasOldRow(k)
    THEN CHOOSE k \in 1..Len(site.listing) :
            HasOldRow(k) /\ \A j \in 1..(k - 1) : ~HasOldRow(j)
    ELSE Len(site.listing)

\* C26: when no fetch fails, every listed row with a well-formed target-year
\* date and a missing language, on a page up to the first one that shows an
\* old row, is among the rows the pipeline's detector returns; rows with a
\* malformed date neither stop the walk nor hide target rows behind them.
C26_NoTargetRowHidden ==
    (WalkedPipeline /\ net.failed = 0) =>
       \A p \in 1..FirstOldPage : \A row \in TargetRows(p) :
          (\E l \in {"E", "S"} : <<row.number, l>> \notin known_pairs) =>
             \E j \in 1..Len(new_circulars) : new_circulars[j].number = row.number


\* C27: a file at a PDF cache path was written by a download that completed:
\* a download that fails part-way leaves no file behind, and the paths the
\* run takes as present for a bulletin all hold a complete file.
C27_CachedFileIsComplete ==
    script = "run_pipeline" =>
       /\ \A pr \in Pairs : disk[pr] \in {"none", "full"}
       /\ ppc \in {"lang", "summarise"} =>
             \A l \in pdf_paths : disk[<<new_circulars[idx].number, l>>] = "full"


\* C28: a confirmed cloud call is recorded against the ledger entry of the
\* calendar month in which it is made, also when the process has been running
\* since before the month changed: the entry in memory that a confirmed call
\* bumps, and the entry a completed save leaves in the file, carry the current
\* month.
C28_CallRecordedInItsMonth ==
    [][ script = "ocr_vision" =>
          /\ (pc = "urlopen" /\ usage'.pages_used = usage.pages_used + 1) =>
                usage'.month = now_month
          /\ (pc = "save_write" /\ USAGE_FILE'.state = "ok") =>
                USAGE_FILE'.month = now_month ]_vars


\* the counter a reload of the ledger file would give for the month of the
\* entry in memory
Persisted == load_usage(USAGE_FILE, usage.month).pages_used

\* C29: over one run of the quota-gated ladder the pages tallied as 'vision'
\* are as many as pages_used has grown since the run loaded the ledger, and
\* whenever ocr_page has returned the counter in the file equals the counter
\* in memory, also after a failed save.
C29_TallyMatchesLedger ==
    (script = "ocr_vision" /\ pc = "idle" /\ loaded.valid) =>
       /\ ocr_stats.vision = usage.pages_used - loaded.pages_used
       /\ Persisted = usage.pages_used


\* C30: two bulletins of one year with different numbers never get the same
\* PDF cache path or the same text cache path for a language.
C30_CachePathInjective ==
    (script = "build_pdf_path" /\ bulletins # <<>>
     /\ bulletins[1].number # bulletins[2].number) =>
       /\ paths.pdf[1] # paths.pdf[2]
       /\ paths.txt[1] # paths.txt[2]

====
